---- MODULE Spec2Model ----
(***************************************************************************)
(* Model of lollipop (src/src/main.rs): the sticky-modifier engine         *)
(* (KeyState, InternalState, Touchpad) and the event loop of main.          *)
(*                                                                         *)
(* Times are milliseconds, key codes are the evdev key codes (the          *)
(* modifier table is a BTreeMap, so it iterates in ascending code order).  *)
(* Option<SystemTime> is modelled as a sequence: <<>> is None, <<t>> is     *)
(* Some(t).                                                                *)
(***************************************************************************)
EXTENDS Integers, Sequences, FiniteSets, TLC

VARIABLES
    modifiers,              \* InternalState.modifiers : KeyCode -> KeyState
    timeout,                \* InternalState.timeout
    clear_all_with_escape,  \* InternalState.clear_all_with_escape
    touchpad,               \* InternalState.touchpad : Touchpad
    touchpad_timeout,       \* main: touchpad_timeout
    touchpad_events,        \* main: touchpad_events is Some (TRUE) or None (FALSE)
    now,                    \* the wall clock read by SystemTime::now() / elapsed()
    pc,                     \* position of main: "poll", "select", "error", "panic"
    virtual_out,            \* what the most recent step wrote to lollipop_virtual_device
    led,                    \* the value last sent to led_sink
    fault,                  \* the transport failure met by the most recent step
    inlog,                  \* scenario runs: the key events read so far
    outlog,                 \* scenario runs: everything written to the virtual device
    gesture,                \* gesture runs: what the touchpad reported since the last press
    device                  \* device runs: what the virtual device was sent, per modifier

vars == <<modifiers, timeout, clear_all_with_escape, touchpad, touchpad_timeout,
          touchpad_events, now, pc, virtual_out, led, fault,
          inlog, outlog, gesture, device>>

\* The history variables: no part of the program's state, no action reads them.
history == <<inlog, outlog, gesture, device>>

(***************************************************************************)
(* Bounds of the model.                                                    *)
(***************************************************************************)
MaxTime == 1         \* the wall clock ranges over 0..MaxTime
Timeout == 1         \* config.timeout of the bounded runs
TouchpadTimeout == 0 \* config.touchpad_timeout of the bounded runs
Fuzz == 1            \* config.touchpad_fuzz of the bounded runs

\* Timestamps of key events: differences below, at and above the timeout, and
\* timestamps that go backwards.
Times == {0, Timeout, Timeout + 1}
\* Touchpad coordinates: displacements below, at and above the fuzz.
Coords == {0, Fuzz, Fuzz + 1}

(***************************************************************************)
(* Program constants.                                                      *)
(***************************************************************************)
KEY_ESC == 1
KEY_LEFTCTRL == 29
KEY_LEFTSHIFT == 42
TOUCH_RELEASED == 0
TOUCH_HELD == 1
COORDINATE_EMPTY == -1
POSITION_EMPTY == <<COORDINATE_EMPTY, COORDINATE_EMPTY>>
I32_MAX == 2147483647
DefaultTimeout == 500
DefaultTouchpadTimeout == 200
DefaultFuzz == 300

\* Keys that are neither escape nor a modifier name of the configuration
\* (30 is KEY_A).
PlainKeys == {30}
KEY_A == CHOOSE k \in PlainKeys : TRUE

\* The modifier configuration of the bounded runs (two of Config::default's).
ConfigModifiers == {KEY_LEFTCTRL, KEY_LEFTSHIFT}
Keys == {KEY_ESC} \cup ConfigModifiers \cup PlainKeys
PressValues == {0, 1, 2}

(***************************************************************************)
(* KeyState                                                                *)
(***************************************************************************)
None == [tag |-> "None"]
Locked == [tag |-> "Locked"]
Latched(t) == [tag |-> "Latched", time |-> t]

IsLatched(s) == s.tag = "Latched"

\* time.duration_since(last_press) is Ok(time - last_press) iff time >= last_press
duration_since_ok(time, earlier) == time >= earlier

KeyState_transition_LockAtTimeout(self, time, tmo) ==
    IF IsLatched(self)
    THEN IF duration_since_ok(time, self.time) /\ time - self.time <= tmo
         THEN Locked ELSE None
    ELSE IF self = Locked THEN None
    ELSE Latched(time)

KeyState_transition(self, time, tmo) ==
    IF IsLatched(self)
    THEN IF duration_since_ok(time, self.time) /\ time - self.time < tmo
         THEN Locked ELSE None
    ELSE IF self = Locked THEN None
    ELSE Latched(time)

pressed_state_LockedOnly(self) ==
    IF self = Locked THEN 1 ELSE 0

pressed_state(self) ==
    IF self = Locked \/ IsLatched(self) THEN 1 ELSE 0

(***************************************************************************)
(* Events                                                                  *)
(***************************************************************************)
KeyEvent(code, value) == [code |-> code, value |-> value]

RECURSIVE Ascending(_)
\* The keys of a BTreeMap in iteration order.
Ascending(S) ==
    IF S = {} THEN <<>>
    ELSE LET m == CHOOSE x \in S : \A y \in S : x <= y
         IN  <<m>> \o Ascending(S \ {m})

iter(mods) == Ascending(DOMAIN mods)

\* One release event (k, 0) per key of ks, in order.
Releases(ks) == [i \in 1..Len(ks) |-> KeyEvent(ks[i], 0)]

(***************************************************************************)
(* InternalState                                                           *)
(***************************************************************************)
release_latched_KeepState(mods) ==
    [modifiers |-> mods,
     events |-> Releases(SelectSeq(iter(mods), LAMBDA k : IsLatched(mods[k])))]

release_latched(mods) ==
    [modifiers |-> [k \in DOMAIN mods |-> IF IsLatched(mods[k]) THEN None ELSE mods[k]],
     events |-> Releases(SelectSeq(iter(mods), LAMBDA k : IsLatched(mods[k])))]

\* The escape branch of InternalState::transition.
clear_all_LatchedOnly(mods) ==
    [modifiers |-> [k \in DOMAIN mods |-> IF IsLatched(mods[k]) THEN None ELSE mods[k]],
     events |-> Releases(SelectSeq(iter(mods), LAMBDA k : IsLatched(mods[k])))]

clear_all_KeepState(mods) ==
    [modifiers |-> mods,
     events |-> Releases(SelectSeq(iter(mods), LAMBDA k : mods[k] # None))]

clear_all(mods) ==
    [modifiers |-> [k \in DOMAIN mods |-> None],
     events |-> Releases(SelectSeq(iter(mods), LAMBDA k : mods[k] # None))]

modifier_event_AlwaysTransition(mods, key, pressed, timestamp) ==
    LET key_state == KeyState_transition(mods[key], timestamp, timeout)
    IN  [modifiers |-> [mods EXCEPT ![key] = key_state],
         events |-> <<KeyEvent(key, pressed_state(key_state))>>]

modifier_event_ForwardPhysical(mods, key, pressed, timestamp) ==
    LET key_state == IF pressed = 1
                     THEN KeyState_transition(mods[key], timestamp, timeout)
                     ELSE mods[key]
    IN  [modifiers |-> [mods EXCEPT ![key] = key_state],
         events |-> <<KeyEvent(key, IF pressed = 1 THEN pressed_state(key_state)
                                                   ELSE pressed)>>]

\* The modifier branch of InternalState::transition.
modifier_event(mods, key, pressed, timestamp) ==
    LET key_state == IF pressed = 1
                     THEN KeyState_transition(mods[key], timestamp, timeout)
                     ELSE mods[key]
    IN  [modifiers |-> [mods EXCEPT ![key] = key_state],
         events |-> <<KeyEvent(key, pressed_state(key_state))>>]

InternalState_transition_ReleaseOnPress(key, pressed, timestamp) ==
    IF clear_all_with_escape /\ key = KEY_ESC
    THEN clear_all(modifiers)
    ELSE IF key \in DOMAIN modifiers
    THEN modifier_event(modifiers, key, pressed, timestamp)
    ELSE LET r == IF pressed = 1 THEN release_latched(modifiers)
                  ELSE [modifiers |-> modifiers, events |-> <<>>]
         IN  [modifiers |-> r.modifiers,
              events |-> <<KeyEvent(key, pressed)>> \o r.events]

InternalState_transition(key, pressed, timestamp) ==
    IF clear_all_with_escape /\ key = KEY_ESC
    THEN clear_all(modifiers)
    ELSE IF key \in DOMAIN modifiers
    THEN modifier_event(modifiers, key, pressed, timestamp)
    ELSE LET r == release_latched(modifiers)
         IN  [modifiers |-> r.modifiers,
              events |-> <<KeyEvent(key, pressed)>> \o r.events]

respond_touch(touch) ==
    LET tp == IF touch = TOUCH_HELD
              THEN [touchpad EXCEPT !.dragging = FALSE, !.last_release = <<>>]
              ELSE touchpad
    IN  IF ~tp.dragging /\ touch = TOUCH_RELEASED
        THEN LET r == release_latched(modifiers)
             IN  [touchpad |-> [tp EXCEPT !.last_release = <<now>>,
                                          !.buffer = r.events],
                  modifiers |-> r.modifiers]
        ELSE [touchpad |-> tp, modifiers |-> modifiers]

Abs(x) == IF x < 0 THEN -x ELSE x

\* axis is 0 (ABS_X) or 1 (ABS_Y); position is indexed from 1 here.
respond_motion_DragAtFuzz(axis, coordinate) ==
    IF touchpad.dragging THEN touchpad
    ELSE IF touchpad.position[axis + 1] = COORDINATE_EMPTY
    THEN [touchpad EXCEPT !.position[axis + 1] = coordinate]
    ELSE IF Abs(touchpad.position[axis + 1] - coordinate) >= touchpad.fuzz
    THEN [touchpad EXCEPT !.dragging = TRUE, !.position = POSITION_EMPTY]
    ELSE touchpad

respond_motion(axis, coordinate) ==
    IF touchpad.dragging THEN touchpad
    ELSE IF touchpad.position[axis + 1] = COORDINATE_EMPTY
    THEN [touchpad EXCEPT !.position[axis + 1] = coordinate]
    ELSE IF Abs(touchpad.position[axis + 1] - coordinate) > touchpad.fuzz
    THEN [touchpad EXCEPT !.dragging = TRUE, !.position = POSITION_EMPTY]
    ELSE touchpad

led_state_LatchedOnly(mods) ==
    IF \E k \in DOMAIN mods : IsLatched(mods[k]) THEN I32_MAX ELSE 0

led_state(mods) ==
    IF \E k \in DOMAIN mods : pressed_state(mods[k]) > 0 THEN I32_MAX ELSE 0

(***************************************************************************)
(* main: the state after construction                                      *)
(***************************************************************************)
\* Nothing was sent for the modifier yet.
NoWindow == [value |-> 0, open |-> FALSE, plain |-> 0, tapped |-> FALSE]

NoGesture == [held |-> FALSE, first |-> POSITION_EMPTY, exceeded |-> FALSE]

InitTouchpad(fuzz) ==
    [dragging |-> FALSE, position |-> <<-1, -1>>, buffer |-> <<>>,
     last_release |-> <<>>, fuzz |-> fuzz]

InitLoop ==
    /\ now = 0
    /\ pc = "poll"
    /\ virtual_out = <<>>
    /\ led = 0
    /\ fault = "none"
    /\ inlog = <<>>
    /\ outlog = <<>>
    /\ gesture = NoGesture
    /\ device = [m \in DOMAIN modifiers |-> NoWindow]

Init ==
    /\ modifiers = [k \in ConfigModifiers |-> None]
    /\ timeout = Timeout
    /\ clear_all_with_escape \in BOOLEAN
    /\ touchpad = InitTouchpad(Fuzz)
    /\ touchpad_timeout = TouchpadTimeout
    /\ touchpad_events \in BOOLEAN
    /\ InitLoop

(***************************************************************************)
(* main: the event loop                                                    *)
(*                                                                         *)
(* io is the outcome of the step's writes: "ok", "emit" (emit to the       *)
(* virtual device fails) or "led" (send_events to the LED sink fails).     *)
(* A failed write is returned from main by `?`.                            *)
(***************************************************************************)
Running == pc \in {"poll", "select"}

IoOutcomes == {"ok", "emit", "led"}

\* last_release.and_then(|v| v.elapsed().ok()).is_some_and(|v| v > touchpad_timeout)
deferred_due ==
    /\ touchpad.last_release # <<>>
    /\ now >= touchpad.last_release[1]
    /\ now - touchpad.last_release[1] > touchpad_timeout

\* The head of the loop body (lines 298-306); then select! is entered.
PollDeferred(io) ==
    /\ pc = "poll"
    /\ io \in {"ok", "emit"}
    /\ IF deferred_due
       THEN IF io = "ok"
            THEN /\ virtual_out' = touchpad.buffer
                 /\ touchpad' = [touchpad EXCEPT !.buffer = <<>>]
                 /\ pc' = "select"
                 /\ fault' = "none"
            ELSE /\ virtual_out' = <<>>
                 /\ touchpad' = touchpad
                 /\ pc' = "error"
                 /\ fault' = "emit"
       ELSE /\ io = "ok"
            /\ virtual_out' = <<>>
            /\ touchpad' = touchpad
            /\ pc' = "select"
            /\ fault' = "none"
    /\ UNCHANGED <<modifiers, timeout, clear_all_with_escape, touchpad_timeout,
                   touchpad_events, now, led>>

\* The keyboard branch of select! on a key event (lines 308-314).
KeyboardKey(key, pressed, timestamp, io) ==
    LET r == InternalState_transition(key, pressed, timestamp) IN
    /\ pc = "select"
    /\ modifiers' = r.modifiers
    /\ virtual_out' = IF io = "emit" THEN <<>> ELSE r.events
    /\ led' = IF io = "ok" THEN led_state(r.modifiers) ELSE led
    /\ pc' = IF io = "ok" THEN "poll" ELSE "error"
    /\ fault' = IF io = "ok" THEN "none" ELSE io
    /\ UNCHANGED <<timeout, clear_all_with_escape, touchpad, touchpad_timeout,
                   touchpad_events, now>>

\* The keyboard branch on an event that is not a key event (EV_SYN, EV_MSC, ...).
KeyboardOther ==
    /\ pc = "select"
    /\ pc' = "poll"
    /\ fault' = "none"
    /\ virtual_out' = <<>>
    /\ UNCHANGED <<modifiers, timeout, clear_all_with_escape, touchpad,
                   touchpad_timeout, touchpad_events, now, led>>

\* The touchpad branch on BTN_LEFT / BTN_RIGHT / BTN_TOUCH (lines 319-322).
TouchpadButton(pressed, io) ==
    LET r == respond_touch(pressed) IN
    /\ pc = "select"
    /\ touchpad_events
    /\ io \in {"ok", "led"}
    /\ touchpad' = r.touchpad
    /\ modifiers' = r.modifiers
    /\ virtual_out' = <<>>
    /\ led' = IF io = "ok" THEN led_state(r.modifiers) ELSE led
    /\ pc' = IF io = "ok" THEN "poll" ELSE "error"
    /\ fault' = IF io = "ok" THEN "none" ELSE io
    /\ UNCHANGED <<timeout, clear_all_with_escape, touchpad_timeout,
                   touchpad_events, now>>

\* The touchpad branch on ABS_X / ABS_Y (lines 323-325).
TouchpadMotion(axis, xy) ==
    /\ pc = "select"
    /\ touchpad_events
    /\ touchpad' = respond_motion(axis, xy)
    /\ pc' = "poll"
    /\ fault' = "none"
    /\ virtual_out' = <<>>
    /\ UNCHANGED <<modifiers, timeout, clear_all_with_escape, touchpad_timeout,
                   touchpad_events, now, led>>

\* The touchpad branch on any other event.
TouchpadOther ==
    /\ pc = "select"
    /\ touchpad_events
    /\ pc' = "poll"
    /\ fault' = "none"
    /\ virtual_out' = <<>>
    /\ UNCHANGED <<modifiers, timeout, clear_all_with_escape, touchpad,
                   touchpad_timeout, touchpad_events, now, led>>

\* next_event() yields Err on a stream: the pattern `Ok(event)` fails and select!
\* disables that branch. While the other branch is live select! goes on waiting
\* for it (no step); once no branch is left (the touchpad branch of a daemon
\* without touchpad yields None at once and is disabled from the start) select!
\* panics, as it has no else branch.
ReadErrors ==
    /\ pc = "select"
    /\ pc' = "panic"
    /\ fault' = "read"
    /\ virtual_out' = <<>>
    /\ UNCHANGED <<modifiers, timeout, clear_all_with_escape, touchpad,
                   touchpad_timeout, touchpad_events, now, led>>

\* The wall clock advances.
Tick ==
    /\ Running
    /\ now < MaxTime
    /\ now' = now + 1
    /\ UNCHANGED <<modifiers, timeout, clear_all_with_escape, touchpad,
                   touchpad_timeout, touchpad_events, pc, virtual_out, led, fault>>

Poll ==
    \E io \in IoOutcomes : PollDeferred(io) /\ UNCHANGED history

KeyboardKeyEvent ==
    \E key \in Keys, pressed \in PressValues, timestamp \in Times, io \in IoOutcomes :
        KeyboardKey(key, pressed, timestamp, io) /\ UNCHANGED history

KeyboardOtherEvent == KeyboardOther /\ UNCHANGED history

TouchpadButtonEvent ==
    \E pressed \in PressValues, io \in IoOutcomes :
        TouchpadButton(pressed, io) /\ UNCHANGED history

TouchpadMotionEvent ==
    \E axis \in {0, 1}, xy \in Coords : TouchpadMotion(axis, xy) /\ UNCHANGED history

TouchpadOtherEvent == TouchpadOther /\ UNCHANGED history

ReadErrorsPanic == ReadErrors /\ UNCHANGED history

ClockTick == Tick /\ UNCHANGED history

Next ==
    \/ Poll
    \/ KeyboardKeyEvent
    \/ KeyboardOtherEvent
    \/ TouchpadButtonEvent
    \/ TouchpadMotionEvent
    \/ TouchpadOtherEvent
    \/ ReadErrorsPanic
    \/ ClockTick

Spec == Init /\ [][Next]_vars

\* The loop runs whenever it can, and time passes; no event ever has to arrive.
FairSpec == Spec /\ WF_vars(Poll) /\ WF_vars(ClockTick)

(***************************************************************************)
(* Scenario runs: the daemon of Config::default() restricted to the        *)
(* modifier LEFTSHIFT, without touchpad and with a transport that works.   *)
(* The i-th key event read carries the timestamp ScenarioTimes[i];         *)
(* inlog and outlog record what was read and what was written.             *)
(***************************************************************************)
ScenarioTimes == <<0, 10, 50, 60>>
ScenarioKeys == {KEY_LEFTSHIFT, KEY_A}

ScenarioInit ==
    /\ modifiers = [k \in {KEY_LEFTSHIFT} |-> None]
    /\ timeout = DefaultTimeout
    /\ clear_all_with_escape = TRUE
    /\ touchpad = InitTouchpad(DefaultFuzz)
    /\ touchpad_timeout = DefaultTouchpadTimeout
    /\ touchpad_events = FALSE
    /\ InitLoop

ScenarioPoll ==
    /\ PollDeferred("ok")
    /\ outlog' = outlog \o virtual_out'
    /\ UNCHANGED <<inlog, gesture, device>>

ScenarioKeyEvent ==
    /\ Len(inlog) < Len(ScenarioTimes)
    /\ \E key \in ScenarioKeys, pressed \in PressValues :
        LET timestamp == ScenarioTimes[Len(inlog) + 1] IN
        /\ KeyboardKey(key, pressed, timestamp, "ok")
        /\ inlog' = Append(inlog, <<key, pressed, timestamp>>)
        /\ outlog' = outlog \o virtual_out'
    /\ UNCHANGED <<gesture, device>>

ScenarioNext == ScenarioPoll \/ ScenarioKeyEvent

ScenarioSpec == ScenarioInit /\ [][ScenarioNext]_vars

(***************************************************************************)
(* Gesture runs: the daemon with one modifier and a touchpad that reports  *)
(* one touch at a time (press, motion while held, release) over a          *)
(* transport that works. gesture records, since the last touch press, the  *)
(* first coordinate reported on each axis and whether a later coordinate   *)
(* lay more than fuzz away from it.                                        *)
(***************************************************************************)
GestureInit ==
    /\ modifiers = [k \in {KEY_LEFTSHIFT} |-> None]
    /\ timeout = Timeout
    /\ clear_all_with_escape = TRUE
    /\ touchpad = InitTouchpad(Fuzz)
    /\ touchpad_timeout = TouchpadTimeout
    /\ touchpad_events = TRUE
    /\ InitLoop

GesturePoll == PollDeferred("ok") /\ UNCHANGED history

GestureKeyEvent ==
    \E key \in ScenarioKeys, pressed \in PressValues, timestamp \in Times :
        KeyboardKey(key, pressed, timestamp, "ok") /\ UNCHANGED history

GestureTouch ==
    /\ ~gesture.held
    /\ TouchpadButton(TOUCH_HELD, "ok")
    /\ gesture' = [held |-> TRUE, first |-> POSITION_EMPTY, exceeded |-> FALSE]
    /\ UNCHANGED <<inlog, outlog, device>>

GestureRelease ==
    /\ gesture.held
    /\ TouchpadButton(TOUCH_RELEASED, "ok")
    /\ gesture' = NoGesture
    /\ UNCHANGED <<inlog, outlog, device>>

GestureMotion ==
    /\ gesture.held
    /\ \E axis \in {0, 1}, xy \in Coords :
        /\ TouchpadMotion(axis, xy)
        /\ gesture' =
             IF gesture.first[axis + 1] = COORDINATE_EMPTY
             THEN [gesture EXCEPT !.first[axis + 1] = xy]
             ELSE IF Abs(gesture.first[axis + 1] - xy) > touchpad.fuzz
             THEN [gesture EXCEPT !.exceeded = TRUE]
             ELSE gesture
    /\ UNCHANGED <<inlog, outlog, device>>

GestureNext ==
    \/ GesturePoll
    \/ GestureKeyEvent
    \/ GestureTouch
    \/ GestureRelease
    \/ GestureMotion
    \/ ClockTick

GestureSpec == GestureInit /\ [][GestureNext]_vars

(***************************************************************************)
(* Device runs: the daemon with a touchpad, with clear_all_with_escape on,  *)
(* over a transport that works.                                            *)
(* device records, for each modifier m, what the virtual device was sent:  *)
(*   value  - the value of the last event written for m (0 if none);       *)
(*   open   - (m, 1) was written when m latched, m was not pressed again   *)
(*            and no (m, 0) was written since;                             *)
(*   plain  - the number of events of non-modifier keys written since that *)
(*            (m, 1) while open, counted up to MaxPlain;                   *)
(*   tapped - a touchpad release while not dragging found m Latched since  *)
(*            that (m, 1).                                                 *)
(***************************************************************************)
MaxPlain == 2

\* The record of m after the events of batch were written, in order.
RECURSIVE Written(_, _, _)
Written(d, m, batch) ==
    IF batch = <<>> THEN d
    ELSE LET e == Head(batch)
             d1 == IF e.code = m
                   THEN [d EXCEPT !.value = e.value,
                                  !.open = IF e.value = 0 THEN FALSE ELSE d.open]
                   ELSE IF e.code \notin DOMAIN modifiers /\ d.open /\ d.plain < MaxPlain
                   THEN [d EXCEPT !.plain = d.plain + 1]
                   ELSE d
         IN  Written(d1, m, Tail(batch))

\* The record of m after the key event (key, pressed) that found the table as
\* modifiers and wrote batch.
KeyObserved(m, key, pressed, batch) ==
    LET d == Written(device[m], m, batch) IN
    IF key = m /\ pressed = 1
    THEN IF modifiers[m] = None
         THEN [d EXCEPT !.open = TRUE, !.plain = 0, !.tapped = FALSE]
         ELSE [d EXCEPT !.open = FALSE]
    ELSE d

DeviceInit ==
    /\ modifiers = [k \in ConfigModifiers |-> None]
    /\ timeout = Timeout
    /\ clear_all_with_escape = TRUE
    /\ touchpad = InitTouchpad(Fuzz)
    /\ touchpad_timeout = TouchpadTimeout
    /\ touchpad_events = TRUE
    /\ InitLoop

DevicePoll ==
    /\ PollDeferred("ok")
    /\ device' = [m \in DOMAIN modifiers |-> Written(device[m], m, virtual_out')]
    /\ UNCHANGED <<inlog, outlog, gesture>>

DeviceKeyEvent ==
    /\ \E key \in Keys, pressed \in PressValues, timestamp \in Times :
        /\ KeyboardKey(key, pressed, timestamp, "ok")
        /\ device' = [m \in DOMAIN modifiers |->
                        KeyObserved(m, key, pressed, virtual_out')]
    /\ UNCHANGED <<inlog, outlog, gesture>>

DeviceTouchButton ==
    /\ \E pressed \in {TOUCH_RELEASED, TOUCH_HELD} :
        /\ TouchpadButton(pressed, "ok")
        /\ device' = [m \in DOMAIN modifiers |->
                        IF /\ pressed = TOUCH_RELEASED
                           /\ ~touchpad.dragging
                           /\ IsLatched(modifiers[m])
                        THEN [device[m] EXCEPT !.tapped = TRUE]
                        ELSE device[m]]
    /\ UNCHANGED <<inlog, outlog, gesture>>

\* The touchpad of these runs moves along ABS_X only.
DeviceTouchMotion ==
    \E xy \in Coords : TouchpadMotion(0, xy) /\ UNCHANGED history

DeviceNext ==
    \/ DevicePoll
    \/ DeviceKeyEvent
    \/ DeviceTouchButton
    \/ DeviceTouchMotion
    \/ ClockTick

DeviceSpec == DeviceInit /\ [][DeviceNext]_vars

(***************************************************************************)
(* Properties                                                              *)
(***************************************************************************)
IsPressed(s) == s = Locked \/ IsLatched(s)

LatchedKeys(mods) == {k \in DOMAIN mods : IsLatched(mods[k])}

PressedKeys(mods) == {k \in DOMAIN mods : IsPressed(mods[k])}

\* batch is one release (k, 0) for each key of S and nothing else, in the
\* table's iteration order (ascending key code).
ReleasesExactly(batch, S) ==
    /\ Len(batch) = Cardinality(S)
    /\ \A i \in 1..Len(batch) : batch[i].value = 0 /\ batch[i].code \in S
    /\ \A i, j \in 1..Len(batch) : i < j => batch[i].code < batch[j].code

\* The escape rule as the specification states it: an escape press with
\* clear_all_with_escape enabled.
EscapeRule(key, pressed) ==
    clear_all_with_escape /\ key = KEY_ESC /\ pressed = 1

C1_Expected(s, t, T) ==
    CASE s = None -> Latched(t)
      [] s = Locked -> None
      [] IsLatched(s) /\ 0 <= t - s.time /\ t - s.time < T -> Locked
      [] IsLatched(s) /\ (t - s.time >= T \/ t < s.time) -> None

\* C1: a press of a configured modifier with timestamp t takes its entry from
\* None to Latched(t), from Latched(t_prev) to Locked when 0 <= t - t_prev < timeout,
\* from Latched(t_prev) to None when t - t_prev >= timeout or t < t_prev, and from
\* Locked to None; the press that leaves Latched or Locked never yields Latched(t).
C1_PressTransition ==
    pc = "select" =>
        \A k \in DOMAIN modifiers, t \in Times :
            LET after == InternalState_transition(k, 1, t).modifiers[k] IN
            /\ after = C1_Expected(modifiers[k], t, timeout)
            /\ modifiers[k] # None => ~IsLatched(after)

\* A second press within the timeout has locked a modifier.
C1_Witness ==
    \E k \in DOMAIN modifiers :
        pc = "poll" /\ modifiers[k] = Locked /\ virtual_out = <<KeyEvent(k, 1)>>

\* C2: every key event (press, release, autorepeat) on a configured modifier k
\* yields exactly one event (k, v), where v = 1 iff the entry of k is Latched or
\* Locked after the event and v = 0 iff it is None.
C2_ModifierEventReflectsState ==
    pc = "select" =>
        \A k \in DOMAIN modifiers, v \in PressValues, t \in Times :
            LET r == InternalState_transition(k, v, t) IN
            ~EscapeRule(k, v) =>
                /\ Len(r.events) = 1
                /\ r.events[1].code = k
                /\ r.events[1].value \in {0, 1}
                /\ r.events[1].value = 1 <=> IsPressed(r.modifiers[k])
                /\ r.events[1].value = 0 <=> r.modifiers[k] = None

\* A modifier event was answered with a press while the modifier is latched.
C2_Witness ==
    \E k \in DOMAIN modifiers :
        pc = "poll" /\ IsLatched(modifiers[k]) /\ virtual_out = <<KeyEvent(k, 1)>>

\* C3: a key event (k, pressed) on a key that is no configured modifier and is not
\* an escape handled by the clear-all rule is written as (k, pressed) unchanged,
\* followed by one release per modifier that was Latched before the event, in
\* table order, and nothing else.
C3_PlainKeyPassedThrough ==
    [][\A k \in Keys \ DOMAIN modifiers, v \in PressValues, t \in Times :
         (KeyboardKey(k, v, t, "ok") /\ ~EscapeRule(k, v)) =>
            /\ Len(virtual_out') >= 1
            /\ virtual_out'[1] = KeyEvent(k, v)
            /\ ReleasesExactly(Tail(virtual_out'), LatchedKeys(modifiers))]_vars

\* C4: right after a press of a non-modifier key no entry of the table is Latched.
C4_NoLatchedAfterPlainPress ==
    pc = "select" =>
        \A k \in Keys \ DOMAIN modifiers, t \in Times :
            LatchedKeys(InternalState_transition(k, 1, t).modifiers) = {}

\* A plain key press was written together with the release of a latched modifier.
C4_Witness ==
    /\ pc = "poll"
    /\ Len(virtual_out) >= 2
    /\ virtual_out[1] = KeyEvent(KEY_A, 1)
    /\ virtual_out[2].value = 0
    /\ LatchedKeys(modifiers) = {}

\* C5: a Locked modifier m stays Locked, and no release of m is written, in
\* every step other than a press of m, an escape press with
\* clear_all_with_escape enabled, or a touchpad release while not dragging.
C5_LockedLeftOnlyByPressEscapeTap ==
    [][\A m \in DOMAIN modifiers :
         LET kept == /\ modifiers'[m] = Locked
                     /\ \A i \in 1..Len(virtual_out') :
                            virtual_out'[i] # KeyEvent(m, 0)
         IN  modifiers[m] = Locked =>
               /\ \A k \in Keys, v \in PressValues, t \in Times, io \in IoOutcomes :
                     (KeyboardKey(k, v, t, io) /\ ~(k = m /\ v = 1) /\ ~EscapeRule(k, v))
                        => kept
               /\ \A v \in PressValues, io \in IoOutcomes :
                     (TouchpadButton(v, io) /\ ~(v = TOUCH_RELEASED /\ ~touchpad.dragging))
                        => kept
               /\ \A axis \in {0, 1}, xy \in Coords : TouchpadMotion(axis, xy) => kept
               /\ \A io \in IoOutcomes : PollDeferred(io) => kept
               /\ (KeyboardOther \/ TouchpadOther \/ Tick) => kept]_vars

\* C6: with clear_all_with_escape enabled an escape press sets every entry to
\* None and writes exactly one release per modifier that was Latched or Locked,
\* in table order, and no event for the escape key.
C6_EscapePressClearsAll ==
    (pc = "select" /\ clear_all_with_escape) =>
        \A t \in Times :
            LET r == InternalState_transition(KEY_ESC, 1, t) IN
            /\ \A k \in DOMAIN modifiers : r.modifiers[k] = None
            /\ ReleasesExactly(r.events, PressedKeys(modifiers))
            /\ \A i \in 1..Len(r.events) : r.events[i].code # KEY_ESC

\* An escape press released both modifiers.
C6_Witness ==
    /\ pc = "poll"
    /\ clear_all_with_escape
    /\ virtual_out = <<KeyEvent(KEY_LEFTCTRL, 0), KeyEvent(KEY_LEFTSHIFT, 0)>>
    /\ \A k \in DOMAIN modifiers : modifiers[k] = None

\* LSHIFT press@0, LSHIFT release@10, A press@50, A release@60
SingleLatchInput ==
    <<<<KEY_LEFTSHIFT, 1, 0>>, <<KEY_LEFTSHIFT, 0, 10>>, <<KEY_A, 1, 50>>, <<KEY_A, 0, 60>>>>

\* C7 as stated: the single-latch input writes LSHIFT press, A press, LSHIFT
\* release, A release (the physical LSHIFT release writes nothing) and leaves
\* the table {LSHIFT: None}.
C7_SingleLatchSwallowsRelease ==
    inlog = SingleLatchInput =>
        /\ outlog = <<KeyEvent(KEY_LEFTSHIFT, 1), KeyEvent(KEY_A, 1),
                      KeyEvent(KEY_LEFTSHIFT, 0), KeyEvent(KEY_A, 0)>>
        /\ modifiers = [k \in {KEY_LEFTSHIFT} |-> None]

\* C7 amended: the single-latch input writes LSHIFT press, LSHIFT press (the
\* physical LSHIFT release is answered with the latched state, value 1), A press,
\* LSHIFT release, A release, and leaves the table {LSHIFT: None}.
C7_SingleLatchOutput ==
    inlog = SingleLatchInput =>
        /\ outlog = <<KeyEvent(KEY_LEFTSHIFT, 1), KeyEvent(KEY_LEFTSHIFT, 1),
                      KeyEvent(KEY_A, 1), KeyEvent(KEY_LEFTSHIFT, 0),
                      KeyEvent(KEY_A, 0)>>
        /\ modifiers = [k \in {KEY_LEFTSHIFT} |-> None]

\* The single-latch input has been read to its end.
C7_Witness == inlog = SingleLatchInput /\ pc = "select"

\* A staged batch whose debounce has elapsed.
StagedAndDue == Running /\ touchpad.buffer # <<>> /\ deferred_due

\* C8: once a tap has staged a non-empty batch and more than touchpad_timeout
\* has elapsed since the release, the loop eventually writes the batch, even if
\* no further keyboard or touchpad event arrives.
C8_DeferredReleaseEventuallyEmitted == StagedAndDue ~> ~StagedAndDue

\* C9: when, since the touch press, a coordinate was reported more than fuzz
\* away from the first coordinate reported on its axis, the touch release stages
\* nothing: the buffer is left as it was, last_release stays unset and every
\* Latched modifier stays Latched.
C9_DragSuppressesTap ==
    [][(gesture.held /\ gesture.exceeded /\ TouchpadButton(TOUCH_RELEASED, "ok")) =>
         /\ touchpad'.buffer = touchpad.buffer
         /\ touchpad'.last_release = <<>>
         /\ \A m \in LatchedKeys(modifiers) : modifiers'[m] = modifiers[m]]_vars

\* C10: a step that meets a transport failure leaves the loop running, with the
\* engine state unchanged.
C10_TransportErrorsDoNotStopLoop ==
    [][fault' # "none" =>
         /\ pc' \in {"poll", "select"}
         /\ modifiers' = modifiers
         /\ touchpad' = touchpad]_vars

\* C11: led_state is nonzero exactly when some modifier is Latched or Locked, and
\* the value sent to the LED sink by a keyboard key event and by a touchpad
\* button event is led_state of the table as that event left it.
C11_LedReflectsTable ==
    [][/\ (led_state(modifiers) # 0) <=> (PressedKeys(modifiers) # {})
       /\ (led_state(modifiers') # 0) <=> (PressedKeys(modifiers') # {})
       /\ (pc = "select" /\ pc' = "poll") =>
            \/ led' = led_state(modifiers')
            \/ /\ \A k \in Keys, v \in PressValues, t \in Times :
                     ~KeyboardKey(k, v, t, "ok")
               /\ \A v \in PressValues : ~TouchpadButton(v, "ok")]_vars

\* A tap released a latched modifier while the other one is Locked: the LED
\* stays lit.
C11_Witness ==
    /\ pc = "poll"
    /\ touchpad.buffer # <<>>
    /\ touchpad.last_release # <<>>
    /\ \E k \in DOMAIN modifiers : modifiers[k] = Locked
    /\ LatchedKeys(modifiers) = {}
    /\ led = I32_MAX

\* C12: the escape clear-all applied twice in a row gives the table of one
\* application and returns no event the second time; release_latched on a table
\* without Latched entry returns no event and leaves the table, Locked entries
\* included, as it was.
C12_BulkReleaseIdempotent ==
    LET once == clear_all(modifiers)
        twice == clear_all(once.modifiers)
    IN  /\ twice.modifiers = once.modifiers
        /\ twice.events = <<>>
        /\ LatchedKeys(modifiers) = {} =>
              release_latched(modifiers) = [modifiers |-> modifiers, events |-> <<>>]

\* A plain key has released the latched LEFTSHIFT (no Latched entry is left)
\* while LEFTCTRL is Locked (the clear-all has something to clear).
C12_Witness ==
    /\ pc = "poll"
    /\ virtual_out = <<KeyEvent(KEY_A, 1), KeyEvent(KEY_LEFTSHIFT, 0)>>
    /\ modifiers[KEY_LEFTCTRL] = Locked
    /\ modifiers[KEY_LEFTSHIFT] = None

\* C13 as stated: in any interleaving of keyboard and touchpad events, at most
\* one event of a non-modifier key is written between the (m, 1) written when m
\* latched and the next (m, 0), as long as m is not pressed again.
C13_LatchedAppliesToOneEvent ==
    \A m \in DOMAIN modifiers : device[m].plain <= 1

\* C13 amended: the same, for a modifier that no touchpad tap found Latched
\* since that (m, 1).
C13_LatchedAppliesToOneEventUntapped ==
    \A m \in DOMAIN modifiers : ~device[m].tapped => device[m].plain <= 1

\* A plain key was written after LEFTSHIFT latched, and released it.
C13_Witness ==
    /\ pc = "poll"
    /\ virtual_out = <<KeyEvent(KEY_A, 1), KeyEvent(KEY_LEFTSHIFT, 0)>>
    /\ device[KEY_LEFTSHIFT].plain = 1
    /\ ~device[KEY_LEFTSHIFT].open
    /\ ~device[KEY_LEFTSHIFT].tapped

\* C14: the buffer of staged releases is non-empty only while last_release is
\* set.
C14_BufferOnlyWhileReleaseSet ==
    touchpad.buffer # <<>> => touchpad.last_release # <<>>

\* C15: the poll at the top of the loop fires only when last_release is set and
\* more than touchpad_timeout has elapsed since; when it fires it writes the
\* buffer, empties it and unsets last_release in the same step; when it does not
\* fire it writes nothing and changes no state.
C15_PollEmitsOncePerTap ==
    [][PollDeferred("ok") =>
         IF touchpad.last_release # <<>>
            /\ now - touchpad.last_release[1] > touchpad_timeout
         THEN /\ virtual_out' = touchpad.buffer
              /\ touchpad'.buffer = <<>>
              /\ touchpad'.last_release = <<>>
         ELSE /\ virtual_out' = <<>>
              /\ touchpad' = touchpad
              /\ modifiers' = modifiers]_vars

\* C16: a touchpad button press sets dragging to false, unsets last_release and
\* resets position to unset on both axes.
C16_TouchPressResetsTracker ==
    [][TouchpadButton(TOUCH_HELD, "ok") =>
         /\ ~touchpad'.dragging
         /\ touchpad'.last_release = <<>>
         /\ touchpad'.position = POSITION_EMPTY]_vars

\* C17: a motion event with value v on an axis, while not dragging: with the
\* axis position set, dragging becomes true and position is cleared on both
\* axes exactly when |position[axis] - v| > fuzz, and otherwise (a displacement
\* equal to fuzz included) nothing changes; with the axis position unset, v is
\* recorded as the position of that axis and nothing else changes. While
\* dragging a motion event changes nothing.
C17_DragOnlyBeyondFuzz ==
    pc = "select" =>
        \A axis \in {0, 1}, v \in Coords :
            LET origin == touchpad.position[axis + 1]
                after == respond_motion(axis, v)
            IN  /\ touchpad.dragging => after = touchpad
                /\ (~touchpad.dragging /\ origin = COORDINATE_EMPTY) =>
                      after = [touchpad EXCEPT !.position[axis + 1] = v]
                /\ (~touchpad.dragging /\ origin # COORDINATE_EMPTY) =>
                      /\ after.dragging <=> (origin - v > Fuzz \/ v - origin > Fuzz)
                      /\ after.dragging => after.position = <<-1, -1>>
                      /\ ~after.dragging => after = touchpad
                      /\ after.buffer = touchpad.buffer
                      /\ after.last_release = touchpad.last_release
                      /\ after.fuzz = touchpad.fuzz

\* Motion beyond the fuzz turned a touch into a drag.
C17_Witness ==
    /\ pc = "poll"
    /\ touchpad.dragging
    /\ touchpad.position = POSITION_EMPTY

\* C18: a release or an autorepeat of a configured modifier leaves the whole
\* table and the touchpad tracker as they were.
C18_ModifierReleaseKeepsState ==
    [][(pc = "select" /\ pc' = "poll") =>
         \A k \in DOMAIN modifiers, v \in PressValues \ {1}, t \in Times :
             KeyboardKey(k, v, t, "ok") =>
                 modifiers' = modifiers /\ touchpad' = touchpad]_vars

\* The release of a latched modifier was answered with its pressed state, and
\* the modifier is still Latched.
C18_Witness ==
    /\ pc = "poll"
    /\ IsLatched(modifiers[KEY_LEFTSHIFT])
    /\ modifiers[KEY_LEFTCTRL] = Locked
    /\ virtual_out = <<KeyEvent(KEY_LEFTSHIFT, 1)>>
    /\ touchpad.buffer # <<>>

\* C19: whenever no release is staged, the value of the last event written to
\* the virtual device for each modifier (0 if none was written) is the pressed
\* state of its table entry.
C19_DeviceMatchesTable ==
    touchpad.buffer = <<>> =>
        \A m \in DOMAIN modifiers : device[m].value = pressed_state(modifiers[m])

====
